---- MODULE Spec2Model ----
(***************************************************************************)
(* Verification model of the clipcap training scripts: the supervision     *)
(* mask construction of the captioning (IC) and question answering (QA)    *)
(* datasets, the loss selection of the training and validation loops, the *)
(* batched top-1 decoding loop, the paired multi-task training loop, the   *)
(* prefix-only model object, the construction of attention blocks, the     *)
(* checkpoint files of the training runs and load_model, the sharding of   *)
(* the multi-device runs, the two forward functions of the Transformer     *)
(* stack and the generation over the validation set.                       *)
(***************************************************************************)
EXTENDS Integers, Sequences, FiniteSets, TLC

VARIABLES
    kind,             \* "IC": ClipCocoDataset_IC, "QA": ClipCocoDataset_VQA
    prefix_length,    \* self.prefix_length of the dataset
    max_seq_len,      \* self.max_seq_len
    captions,         \* self.captions   (IC), one text per distinct example
    questions,        \* self.questions  (QA)
    answers,          \* self.answers    (QA)
    copies,           \* how many times each distinct example occurs in the corpus
    captions_tokens,  \* self.captions_tokens, the cached (and mutated) token tensors
    accessed,         \* examples __getitem__ has been called on at least once
    ret,              \* what the last __getitem__ returned
    step,             \* what the last training / validation step did with it
    dec,              \* state of the batched decoding loop
    mtl,              \* state of main() of the multi-task training script
    model,            \* the ClipCaptionPrefix object and what was last computed with it
    attn,             \* a MultiHeadAttention object and its last forward call
    trainer,          \* state of train() of the single-task scripts, on every rank
    out_dir,          \* the checkpoint files of the output directory
    loader,           \* what the last load_model call did
    stack,            \* a Transformer stack and the two ways of running it
    gen               \* state of validation_generation

dataVars == <<kind, prefix_length, max_seq_len, captions, questions, answers,
              copies, captions_tokens, accessed, ret, step>>
vars == <<kind, prefix_length, max_seq_len, captions, questions, answers,
          copies, captions_tokens, accessed, ret, step, dec, mtl, model, attn,
          trainer, out_dir, loader, stack, gen>>
\* The variables of the checkpointing, loading, stacking and generation parts.
runVars == <<trainer, out_dir, loader, stack, gen>>

-----------------------------------------------------------------------------
(* Bounds of the model.                                                    *)

\* Longest caption and longest answer, in words, of the example under observation.
MaxWords == 2
\* Longest question, in words, of the example under observation.
MaxQWords == 1
\* Number of copies of the second example in a large corpus (the corpus
\* statistics only cut outliers off when the corpus has > 100 examples).
BulkCopies == 120
\* Largest batch handed to the decoder.
MaxBatch == 2
\* entry_length of generate_topk (50 by default) and max_length of
\* generate_per_batch (67), scaled down.
EntryLength == 3

-----------------------------------------------------------------------------
(* Small helpers on sequences.                                             *)

Ones(n) == [j \in 1..n |-> 1]
Zeros(n) == [j \in 1..n |-> 0]
Rep(n, v) == [j \in 1..n |-> v]

RECURSIVE SumSeq(_)
SumSeq(s) == IF s = <<>> THEN 0 ELSE Head(s) + SumSeq(Tail(s))

Max2(a, b) == IF a >= b THEN a ELSE b
Min2(a, b) == IF a <= b THEN a ELSE b

-----------------------------------------------------------------------------
(* The tokenizer (GPT2Tokenizer, byte-level BPE).  A text is a sequence of *)
(* words; in the string the words are separated by one space, except that  *)
(* the punctuation word "!" attaches to the word before it.  The tokenizer *)
(* first splits the string into pieces, a piece being a word together with *)
(* the space in front of it, and encodes every piece on its own: the bare  *)
(* and the space-prefixed form of a word are different pieces with         *)
(* different encodings, not always of the same length.                     *)

Words == {"yes", "skate", "!"}

\* tokenizer.eos_token_id
eos_token_id == 9

\* stop_token_index = tokenizer.encode(stop_token)[0], the id of "."
stop_token_index == 8

\* The BPE encoding of one piece.  "!" is token id 0 of the GPT-2
\* vocabulary; "skate" stands for a word that is one token with the leading
\* space and two tokens without it.
BPE(word, spaced) ==
    CASE word = "yes"   -> IF spaced THEN <<2>> ELSE <<1>>
      [] word = "skate" -> IF spaced THEN <<5>> ELSE <<3, 4>>
      [] word = "!"     -> IF spaced THEN <<6>> ELSE <<0>>

\* Encoding of the words text[k..], the first of them preceded by a space
\* iff `spaced`.
RECURSIVE EncodeFrom(_, _)
EncodeFrom(text, spaced) ==
    IF text = <<>> THEN <<>>
    ELSE BPE(Head(text), spaced)
         \o (IF Tail(text) = <<>> THEN <<>>
             ELSE EncodeFrom(Tail(text), Head(Tail(text)) # "!"))

\* tokenizer.encode(text)
Encode(text) == EncodeFrom(text, FALSE)

\* tokenizer.encode(question + ' ' + answer): the first word of the answer
\* is now preceded by a space.
EncodeJoined(q, a) == Encode(q) \o EncodeFrom(a, TRUE)

Texts == UNION {[1..n -> Words] : n \in 1..MaxWords}
QTexts == UNION {[1..n -> Words] : n \in 1..MaxQWords}

-----------------------------------------------------------------------------
(* Dataset construction (__init__).                                        *)

Items == {1, 2}

\* len(self): every distinct example counted with its number of copies.
DatasetLen(cp) == cp[1] + cp[2]

\* sum of the token lengths over the corpus
LenSum(toks, cp) == cp[1] * Len(toks[1]) + cp[2] * Len(toks[2])

\* n^2 * (n-1) * variance of the token lengths (torch.std is the unbiased
\* estimator): sum over the corpus of (n*len - S)^2.
LenSq(toks, cp) ==
    LET n == DatasetLen(cp)
        S == LenSum(toks, cp)
    IN  cp[1] * (n * Len(toks[1]) - S) * (n * Len(toks[1]) - S)
      + cp[2] * (n * Len(toks[2]) - S) * (n * Len(toks[2]) - S)

\* k <= all_len.mean() + all_len.std() * 10, in exact integer arithmetic.
UnderCap(k, toks, cp) ==
    LET n == DatasetLen(cp)
        S == LenSum(toks, cp)
    IN  \/ n * k <= S
        \/ (n * k - S) * (n * k - S) * (n - 1) <= 100 * LenSq(toks, cp)

\* min(int(all_len.mean() + all_len.std() * 10), int(all_len.max()))
ComputeMaxSeqLen(toks, cp) ==
    LET mx == Max2(Len(toks[1]), Len(toks[2]))
    IN  CHOOSE k \in 0..mx :
            /\ UnderCap(k, toks, cp)
            /\ \A k2 \in (k+1)..mx : ~UnderCap(k2, toks, cp)

\* mask[:, 10:] and prefix_length = 10 in the training loops
HardcodedPrefix == 10

PrefixLengths == {HardcodedPrefix, HardcodedPrefix + 1}

NoRet == [item |-> 0, first |-> FALSE, error |-> FALSE, tokens |-> <<>>, mask |-> <<>>, mask4gpt |-> <<>>]
NoStep == [loop |-> "none", attention_mask |-> <<>>, bool_mask |-> <<>>,
           scored |-> {}, error |-> FALSE]
NoDec == [pc |-> "off", fn |-> "none", batch_size |-> 0, i |-> 0, calls |-> 0,
          tokens |-> <<>>, seq_lengths |-> <<>>, is_stopped |-> <<>>,
          output |-> <<>>]

\* main() has not been entered.
NoMTL == [pc |-> "off", n_ic |-> 0, n_vqa |-> 0, epochs |-> 0, epoch |-> 0,
          save_every |-> 0,
          drawn_ic |-> 0, drawn_vqa |-> 0, steps |-> 0,
          loss_ic |-> 0, loss_vqa |-> 0, loss |-> 0,
          forwards |-> 0, backwards |-> 0, updates |-> 0, scheduler_steps |-> 0,
          train_loss_ic |-> 0, train_loss_vqa |-> 0,
          epoch_avg_train_loss_ic |-> [sum |-> 0, count |-> 0],
          epoch_avg_train_loss_vqa |-> [sum |-> 0, count |-> 0]]

\* No shape: nothing was computed.
NoShape == <<>>

\* No model object has been constructed.
NoModel == [pc |-> "none", mapping_type |-> "none", prefix_length |-> 0,
            clip_length |-> 0, gpt_embedding_size |-> 0,
            training |-> [m \in {"self", "clip_project", "gpt"} |-> FALSE],
            optimizer |-> {}, op |-> "none", batch |-> 0,
            mapper_out |-> NoShape, embed |-> NoShape, error |-> FALSE]

\* No attention block has been constructed.
NoAttn == [pc |-> "none", dim_self |-> 0, num_heads |-> 0, x |-> NoShape,
           y |-> NoShape, out |-> NoShape]

\* train() has not been entered.
NoTrainer == [pc |-> "off", variant |-> "none", world_size |-> 0, epochs |-> 0,
              save_every |-> 0, N |-> 0, n |-> 0, num_training_steps |-> 0,
              epoch |-> 0, idx |-> 0, scheduler_steps |-> 0, sampler_epoch |-> 0,
              shards |-> <<>>, rank |-> <<>>, writes |-> {}]

\* An empty output directory: no key has a file.
NoFiles == {}

\* load_model has not been called.
NoLoader == [pc |-> "off", path |-> <<>>, message |-> "none", weights |-> <<>>,
             raised |-> FALSE]

\* No Transformer stack has been built.
NoStack == [pc |-> "none", enc_dec |-> FALSE, layers |-> 0, y |-> <<>>,
            mask |-> <<>>, i |-> 0, x |-> <<>>, j |-> 0, xa |-> <<>>,
            attentions |-> <<>>]

\* validation_generation has not been called.
NoGen == [pc |-> "off", script |-> "none", N |-> 0, batch_size |-> 0, pos |-> 0,
          texts |-> <<>>, error |-> "none"]

\* Nothing of the checkpointing, loading, stacking and generation parts runs.
IdleRuns ==
    /\ trainer = NoTrainer
    /\ out_dir = NoFiles
    /\ loader = NoLoader
    /\ stack = NoStack
    /\ gen = NoGen

InitIC ==
    /\ kind = "IC"
    /\ prefix_length \in PrefixLengths
    /\ captions \in [Items -> Texts]
    /\ captions[2] = <<"skate">>
    /\ questions = [i \in Items |-> <<>>]
    /\ answers = [i \in Items |-> <<>>]
    /\ copies \in {<<1, 1>>, <<1, BulkCopies>>}
    /\ captions_tokens = [i \in Items |-> Encode(captions[i])]
    /\ max_seq_len = ComputeMaxSeqLen(captions_tokens, copies)

InitQA ==
    /\ kind = "QA"
    /\ prefix_length \in PrefixLengths
    /\ captions = [i \in Items |-> <<>>]
    /\ questions \in [Items -> QTexts]
    /\ answers \in [Items -> Texts]
    /\ questions[2] = <<"skate">>
    /\ answers[2] = <<"yes">>
    /\ copies \in {<<1, 1>>, <<1, BulkCopies>>}
    /\ captions_tokens =
           [i \in Items |-> EncodeJoined(questions[i], answers[i]) \o <<eos_token_id>>]
    /\ max_seq_len = ComputeMaxSeqLen(captions_tokens, copies)

Init ==
    /\ InitIC \/ InitQA
    /\ accessed = {}
    /\ ret = NoRet
    /\ step = NoStep
    /\ dec = NoDec
    /\ mtl = NoMTL
    /\ model = NoModel
    /\ attn = NoAttn
    /\ IdleRuns

-----------------------------------------------------------------------------
(* pad_tokens.                                                             *)

\* torch.cat((tokens, zeros(padding) - 1)) when padding > 0,
\* tokens[:max_seq_len] when padding < 0
PadOrTruncate(tokens, L) ==
    IF L - Len(tokens) > 0 THEN tokens \o Rep(L - Len(tokens), -1)
    ELSE IF L - Len(tokens) < 0 THEN SubSeq(tokens, 1, L)
    ELSE tokens

\* tokens.ge(0), as 0/1
GeZero(tokens) == [j \in 1..Len(tokens) |-> IF tokens[j] >= 0 THEN 1 ELSE 0]

\* Mutant: the sentinel positions are left as they are.
ZeroFill_Skipped(tokens) == tokens

\* tokens[~mask] = 0
ZeroFill(tokens) == [j \in 1..Len(tokens) |-> IF tokens[j] >= 0 THEN tokens[j] ELSE 0]

\* ClipCocoDataset(_IC).pad_tokens.  `tokens` is the tensor object that
\* self.captions_tokens[item] refers to when the in-place write
\* tokens[~mask] = 0 happens, so the cached tensor is zero-filled as well.
pad_tokens_IC(stored, L, P) ==
    LET tokens == PadOrTruncate(stored, L)
        mask == GeZero(tokens)
    IN  [stored |-> ZeroFill(tokens),
         tokens |-> ZeroFill(tokens),
         error |-> FALSE,
         mask |-> Ones(P) \o mask,
         mask4gpt |-> Ones(P) \o mask]

q_range(q) == Len(Encode(q))

\* Mutant: the end-of-sequence marker is not counted.
a_range_NoEos(a) == Len(Encode(a))

a_range(a) == Len(Encode(a)) + 1
rest_range(q, a, L) == L - q_range(q) - a_range(a)

\* Mutant: the trailing padding zeros are forgotten.
need_pred_NoRest(q, a, L) ==
    IF rest_range(q, a, L) >= 0
    THEN Zeros(q_range(q)) \o Ones(a_range(a))
    ELSE Zeros(L)

\* Mutant: an overlong example keeps the part of its blocks that fits.
need_pred_Clipped(q, a, L) ==
    IF rest_range(q, a, L) >= 0
    THEN Zeros(q_range(q)) \o Ones(a_range(a)) \o Zeros(rest_range(q, a, L))
    ELSE SubSeq(Zeros(q_range(q)) \o Ones(a_range(a)), 1, L)

need_pred(q, a, L) ==
    IF rest_range(q, a, L) >= 0
    THEN Zeros(q_range(q)) \o Ones(a_range(a)) \o Zeros(rest_range(q, a, L))
    ELSE Zeros(L)

need_pred_4gpt(q, a, L) ==
    IF rest_range(q, a, L) >= 0
    THEN Ones(q_range(q)) \o Ones(a_range(a)) \o Zeros(rest_range(q, a, L))
    ELSE Zeros(L)

\* ClipCocoDataset_VQA.pad_tokens
pad_tokens_VQA(stored, q, a, L, P) ==
    LET tokens == PadOrTruncate(stored, L)
    IN  [stored |-> ZeroFill(tokens),
         tokens |-> ZeroFill(tokens),
         error |-> FALSE,
         mask |-> Ones(P) \o need_pred(q, a, L),
         mask4gpt |-> Ones(P) \o need_pred_4gpt(q, a, L)]

\* __getitem__: the example the next batch holds
GetItem(item) ==
    IF kind = "IC"
    THEN pad_tokens_IC(captions_tokens[item], max_seq_len, prefix_length)
    ELSE pad_tokens_VQA(captions_tokens[item], questions[item], answers[item],
                        max_seq_len, prefix_length)

\* The DataLoader (num_workers = 0) calls __getitem__ in the training
\* process, so what pad_tokens writes to self.captions_tokens stays.
Fetch(item, r) ==
    /\ captions_tokens' = [captions_tokens EXCEPT ![item] = r.stored]
    /\ accessed' = accessed \cup {item}
    /\ ret' = [item |-> item, first |-> item \notin accessed, error |-> r.error,
               tokens |-> r.tokens, mask |-> r.mask, mask4gpt |-> r.mask4gpt]
    /\ UNCHANGED <<kind, prefix_length, max_seq_len, captions, questions,
                   answers, copies, dec, mtl, model, attn, runVars>>

-----------------------------------------------------------------------------
(* The loss of one step, for a batch of one example.                       *)

\* s[k:], 0-based k
DropFirst(s, k) == SubSeq(s, k + 1, Len(s))

\* Rows of outputs.logits[:, p - 1: -1] for an input of P + L positions.
LogitRows(P, L, p) == (P + L - 1) - (p - 1)

\* nnf.cross_entropy(rows, targets, ignore_index=0): the positions among
\* `selected` whose target is not the ignored id.
CrossEntropyScored(tokens, selected) == {j \in selected : tokens[j] # 0}

\* Captioning loss: every row is handed to the cross entropy, the mask is
\* not consulted.  `p` is the prefix length the loop slices the logits by.
LossIC(r, P, L, p, name) ==
    IF LogitRows(P, L, p) # Len(r.tokens)
    THEN [loop |-> name, attention_mask |-> r.mask, bool_mask |-> <<>>,
          scored |-> {}, error |-> TRUE]
    ELSE [loop |-> name, attention_mask |-> r.mask, bool_mask |-> <<>>,
          scored |-> CrossEntropyScored(r.tokens, 1..Len(r.tokens)),
          error |-> FALSE]

\* new_mask = mask[:, 10:]; bool_mask = new_mask.ge(1).view(-1)
BoolMask(mask) ==
    LET new_mask == DropFirst(mask, HardcodedPrefix)
    IN  [j \in 1..Len(new_mask) |-> IF new_mask[j] >= 1 THEN 1 ELSE 0]

\* Mutant: the loss mask is handed to the language model.
AttentionArgVQA_LossMask(r) == r.mask

\* The mask the QA loops hand to the language model: model(tokens, prefix, mask4gpt)
AttentionArgVQA(r) == r.mask4gpt

\* QA loss: final_logits[bool_mask] against finally_tok[bool_mask]; boolean
\* indexing raises when the index and the indexed tensor differ in length.
LossVQA(r, P, L, p, name) ==
    LET bm == BoolMask(r.mask)
    IN  IF Len(bm) # LogitRows(P, L, p) \/ Len(bm) # Len(r.tokens)
        THEN [loop |-> name, attention_mask |-> AttentionArgVQA(r), bool_mask |-> bm,
              scored |-> {}, error |-> TRUE]
        ELSE [loop |-> name, attention_mask |-> AttentionArgVQA(r), bool_mask |-> bm,
              scored |-> CrossEntropyScored(r.tokens, {j \in 1..Len(bm) : bm[j] = 1}),
              error |-> FALSE]

\* train_IC.train: one iteration on a captioning batch
TrainIC(item) ==
    LET r == GetItem(item)
    IN  /\ kind = "IC"
        /\ Fetch(item, r)
        /\ step' = LossIC(r, prefix_length, max_seq_len, prefix_length, "train_IC.train")

\* train_IC.apply_validation
ValidateIC(item) ==
    LET r == GetItem(item)
    IN  /\ kind = "IC"
        /\ Fetch(item, r)
        /\ step' = LossIC(r, prefix_length, max_seq_len, prefix_length, "apply_validation")

\* train_MTL_IC_VQA.train_ic and the loss main() takes of its result
TrainIC_MTL(item) ==
    LET r == GetItem(item)
    IN  /\ kind = "IC"
        /\ Fetch(item, r)
        /\ step' = LossIC(r, prefix_length, max_seq_len, HardcodedPrefix, "train_ic")

\* train_MTL_IC_VQA.train_vqa and the loss main() takes of its result
TrainVQA_MTL(item) ==
    LET r == GetItem(item)
    IN  /\ kind = "QA"
        /\ Fetch(item, r)
        /\ step' = LossVQA(r, prefix_length, max_seq_len, HardcodedPrefix, "train_vqa")

\* train_MTL_IC_VQA.apply_validation_vqa, called with prefix_length=10
ValidateVQA(item) ==
    LET r == GetItem(item)
    IN  /\ kind = "QA"
        /\ Fetch(item, r)
        /\ step' = LossVQA(r, prefix_length, max_seq_len, HardcodedPrefix,
                           "apply_validation_vqa")

\* multi_gpu_visdial_vqa.train: one iteration on a QA batch
TrainVQA_DDP(item) ==
    LET r == GetItem(item)
    IN  /\ kind = "QA"
        /\ Fetch(item, r)
        /\ step' = LossVQA(r, prefix_length, max_seq_len, prefix_length,
                           "multi_gpu_visdial_vqa.train")

\* validation_generation: the loop draws the batch, no loss is taken
GenerationFetch(item) ==
    LET r == GetItem(item)
    IN  /\ Fetch(item, r)
        /\ step' = NoStep

Next ==
    \E item \in Items :
        \/ TrainIC(item)
        \/ ValidateIC(item)
        \/ TrainIC_MTL(item)
        \/ TrainVQA_MTL(item)
        \/ ValidateVQA(item)
        \/ TrainVQA_DDP(item)
        \/ GenerationFetch(item)

Spec == Init /\ [][Next]_vars

-----------------------------------------------------------------------------
(* Batched top-1 decoding: generate_topk and generate_per_batch.           *)

\* What the language model's top-1 choice can be for one sequence: the
\* stop token, the end-of-sequence token, or some other token.
DecTokens == {stop_token_index, eos_token_id, 1}

Decoders == {"generate_topk", "generate_per_batch"}

\* A dataset that is built and not read.
IdleDataset ==
    /\ kind = "IC"
    /\ prefix_length = HardcodedPrefix
    /\ captions = [i \in Items |-> <<"skate">>]
    /\ questions = [i \in Items |-> <<>>]
    /\ answers = [i \in Items |-> <<>>]
    /\ copies = <<1, 1>>
    /\ captions_tokens = [i \in Items |-> Encode(captions[i])]
    /\ max_seq_len = ComputeMaxSeqLen(captions_tokens, copies)
    /\ accessed = {}
    /\ ret = NoRet
    /\ step = NoStep

\* The decoding specification leaves the dataset alone.
InitDecode ==
    /\ IdleDataset
    /\ dec = NoDec
    /\ mtl = NoMTL
    /\ model = NoModel
    /\ attn = NoAttn
    /\ IdleRuns

\* seq_lengths = torch.ones(batch_size); is_stopped = torch.zeros(batch_size, bool);
\* tokens = None
DecodeCall(fn, B) ==
    /\ dec.pc = "off"
    /\ dec' = [pc |-> "loop", fn |-> fn, batch_size |-> B, i |-> 0, calls |-> 0,
               tokens |-> [b \in 1..B |-> <<>>],
               seq_lengths |-> [b \in 1..B |-> 1],
               is_stopped |-> [b \in 1..B |-> FALSE],
               output |-> <<>>]
    /\ UNCHANGED <<dataVars, mtl, model, attn, runVars>>

\* Mutant: the stop flags of the earlier steps are not carried over.
StopUpdate_NotAccumulated(is_stopped, next_tokens) ==
    [b \in 1..Len(is_stopped) |->
        \/ next_tokens[b] = stop_token_index
        \/ next_tokens[b] = eos_token_id]

\* is_stopped = is_stopped + next_tokens.eq(stop_token_index).squeeze()
\*                         + next_tokens.eq(eos_token_index).squeeze()
\* (+ on bool tensors is the logical or)
StopUpdate(is_stopped, next_tokens) ==
    [b \in 1..Len(is_stopped) |->
        \/ is_stopped[b]
        \/ next_tokens[b] = stop_token_index
        \/ next_tokens[b] = eos_token_id]

\* Mutant: the length of every sequence is incremented.
LengthUpdate_All(seq_lengths, is_stopped) ==
    [b \in 1..Len(seq_lengths) |-> seq_lengths[b] + 1]

\* seq_lengths[~is_stopped] += 1
LengthUpdate(seq_lengths, is_stopped) ==
    [b \in 1..Len(seq_lengths) |->
        IF is_stopped[b] THEN seq_lengths[b] ELSE seq_lengths[b] + 1]

\* Mutant: the loop only ends with its range.
LoopExit_NoBreak(allStopped, i) ==
    IF i + 1 = EntryLength THEN "decode" ELSE "loop"

\* if is_stopped.all(): break, and the end of range(entry_length);
\* i is the 0-based index of the iteration that just ran.
LoopExit(allStopped, i) ==
    IF allStopped \/ i + 1 = EntryLength THEN "decode" ELSE "loop"

\* One iteration of `for i in range(entry_length)`: one language model
\* call, the top-1 token of every sequence appended, the lengths and stop
\* flags updated, and the loop left when all are stopped or the range ends.
DecodeStep(next_tokens) ==
    /\ dec.pc = "loop"
    /\ dec.i < EntryLength
    /\ LET stopped == StopUpdate(dec.is_stopped, next_tokens)
           allStopped == \A b \in 1..dec.batch_size : stopped[b]
       IN  dec' = [dec EXCEPT
               !.calls = @ + 1,
               !.tokens = [b \in 1..dec.batch_size |-> Append(@[b], next_tokens[b])],
               !.seq_lengths = LengthUpdate(@, dec.is_stopped),
               !.is_stopped = stopped,
               !.i = @ + 1,
               !.pc = LoopExit(allStopped, dec.i)]
    /\ UNCHANGED <<dataVars, mtl, model, attn, runVars>>

\* output[: int(length)] for every sequence, handed to tokenizer.decode
DecodeReturn ==
    /\ dec.pc = "decode"
    /\ dec' = [dec EXCEPT
           !.output = [b \in 1..dec.batch_size |->
                          SubSeq(dec.tokens[b], 1,
                                 Min2(dec.seq_lengths[b], Len(dec.tokens[b])))],
           !.pc = "done"]
    /\ UNCHANGED <<dataVars, mtl, model, attn, runVars>>

NextDecode ==
    \/ \E fn \in Decoders, B \in 1..MaxBatch : DecodeCall(fn, B)
    \/ \E next_tokens \in [1..dec.batch_size -> DecTokens] : DecodeStep(next_tokens)
    \/ DecodeReturn

SpecDecode == InitDecode /\ [][NextDecode]_vars

\* The decoder is a straight-line function: once called it runs on, every
\* enabled step is eventually taken.
FairSpecDecode == InitDecode /\ [][NextDecode]_vars /\ WF_vars(NextDecode)

-----------------------------------------------------------------------------
(* Tensor shapes: a shape is the sequence of the sizes of the dimensions.  *)

RECURSIVE Numel(_)
Numel(shape) == IF shape = <<>> THEN 1 ELSE Head(shape) * Numel(Tail(shape))

\* The product of the sizes that a view names, -1 left out.
RECURSIVE KnownSize(_)
KnownSize(target) ==
    IF target = <<>> THEN 1
    ELSE (IF Head(target) = -1 THEN 1 ELSE Head(target)) * KnownSize(Tail(target))

\* tensor.view(*target) and tensor.reshape(*target): one size may be -1 and
\* is inferred; the call raises when the elements do not fit.
View(shape, target) ==
    LET known == KnownSize(target)
        infer == \E k \in 1..Len(target) : target[k] = -1
        fits  == IF infer THEN known > 0 /\ Numel(shape) % known = 0
                 ELSE Numel(shape) = known
    IN  [ok |-> fits,
         shape |-> IF ~fits THEN NoShape
                   ELSE [k \in 1..Len(target) |->
                            IF target[k] = -1 THEN Numel(shape) \div known
                            ELSE target[k]]]

-----------------------------------------------------------------------------
(* ClipCaptionPrefix: the prefix mapper, the frozen language model, the    *)
(* optimizer built from parameters().                                     *)

MappingTypes == {"mlp", "transformer"}

\* Largest prefix_length and clip_length of a model.
MaxPrefix == 2
MaxClip == 2

\* self.gpt.transformer.wte.weight.shape[1]; the embedding widths of the
\* GPT-2 family (768, 1024, 1280, 1600) are multiples of 8, as these are.
EmbeddingSizes == {8, 16}

GptParameters == {"gpt.transformer", "gpt.lm_head"}

\* The parameters of self.clip_project: MLP.model, or the members of
\* TransformerMapper.
MapperParameters(mapping_type) ==
    IF mapping_type = "mlp" THEN {"clip_project.model"}
    ELSE {"clip_project.transformer", "clip_project.linear",
          "clip_project.prefix_const"}

\* ClipCaptionModel.__init__: a new nn.Module is in training mode, and
\* GPT2LMHeadModel.from_pretrained returns the language model in
\* evaluation mode.
ClipCaptionPrefix_init(mapping_type, P, clip_length, embedding_size) ==
    [pc |-> "constructed", mapping_type |-> mapping_type, prefix_length |-> P,
     clip_length |-> clip_length, gpt_embedding_size |-> embedding_size,
     training |-> [m \in {"self", "clip_project", "gpt"} |-> m # "gpt"],
     optimizer |-> {}, op |-> "none", batch |-> 0,
     mapper_out |-> NoShape, embed |-> NoShape, error |-> FALSE]

\* nn.Module.train(mode): the module and all its submodules take the mode.
Module_train(training, mode) == [m \in DOMAIN training |-> mode]

\* Mutant: train() is not overridden.
ClipCaptionPrefix_train_NoEval(training, mode) == Module_train(training, mode)

\* ClipCaptionPrefix.train: super().train(mode); self.gpt.eval()
ClipCaptionPrefix_train(training, mode) ==
    [Module_train(training, mode) EXCEPT !["gpt"] = FALSE]

\* nn.Module.eval() is self.train(False), which is the overridden train.
ClipCaptionPrefix_eval(training) == ClipCaptionPrefix_train(training, FALSE)

\* ClipCaptionPrefix.parameters: return self.clip_project.parameters()
ClipCaptionPrefix_parameters(m) == MapperParameters(m.mapping_type)

\* MLP.forward: a chain of nn.Linear, the last one with
\* gpt_embedding_size * prefix_length output features.
MLP_forward(m, B) == <<B, m.gpt_embedding_size * m.prefix_length>>

\* TransformerMapper.forward
TransformerMapper_forward(m, B) ==
    LET x      == View(<<B, m.clip_length * m.gpt_embedding_size>>,
                       <<B, m.clip_length, -1>>).shape
        prefix == <<B, m.prefix_length, m.gpt_embedding_size>>
        cat    == <<B, x[2] + prefix[2], x[3]>>
    IN  <<cat[1], cat[2] - m.clip_length, cat[3]>>

\* self.clip_project(prefix) for a batch of B CLIP embeddings.
clip_project(m, B) ==
    IF m.mapping_type = "mlp" THEN MLP_forward(m, B)
    ELSE TransformerMapper_forward(m, B)

\* The specification of the model object: every configuration main() can
\* select, constructed.
InitModel ==
    /\ IdleDataset
    /\ dec = NoDec
    /\ mtl = NoMTL
    /\ attn = NoAttn
    /\ IdleRuns
    /\ \E mapping_type \in MappingTypes, P \in 1..MaxPrefix,
          clip_length \in 1..MaxClip, embedding_size \in EmbeddingSizes :
          model = ClipCaptionPrefix_init(mapping_type, P, clip_length, embedding_size)

\* optimizer = AdamW(model.parameters(), lr=lr)
BuildOptimizer ==
    /\ model.pc = "constructed"
    /\ model' = [model EXCEPT !.optimizer = ClipCaptionPrefix_parameters(model)]
    /\ UNCHANGED <<dataVars, dec, mtl, attn, runVars>>

\* model.train(mode)
ModelTrain(mode) ==
    /\ model.pc = "constructed"
    /\ model' = [model EXCEPT !.training = ClipCaptionPrefix_train(@, mode),
                              !.op = IF mode THEN "train(True)" ELSE "train(False)"]
    /\ UNCHANGED <<dataVars, dec, mtl, attn, runVars>>

\* model.eval()
ModelEval ==
    /\ model.pc = "constructed"
    /\ model' = [model EXCEPT !.training = ClipCaptionPrefix_eval(@),
                              !.op = "eval()"]
    /\ UNCHANGED <<dataVars, dec, mtl, attn, runVars>>

\* ClipCaptionModel.forward: the mapper output is viewed as
\* (-1, prefix_length, gpt_embedding_size) before it is concatenated.
ModelForward(B) ==
    /\ model.pc = "constructed"
    /\ LET out == clip_project(model, B)
           prefix_projections ==
               View(out, <<-1, model.prefix_length, model.gpt_embedding_size>>)
       IN  model' = [model EXCEPT !.op = "forward", !.batch = B,
                                  !.mapper_out = out,
                                  !.embed = prefix_projections.shape,
                                  !.error = ~prefix_projections.ok]
    /\ UNCHANGED <<dataVars, dec, mtl, attn, runVars>>

\* One batch of validation_generation: prefix_embed = model.clip_project(prefix)
\* is handed to the decoder as embed, and the decoder starts with
\* generated = embed. model.eval() was called before the loop.
ValidationGeneration(B) ==
    /\ model.pc = "constructed"
    /\ LET prefix_embed == clip_project(model, B)
       IN  model' = [model EXCEPT !.training = ClipCaptionPrefix_eval(@),
                                  !.op = "generate", !.batch = B,
                                  !.mapper_out = prefix_embed,
                                  !.embed = prefix_embed,
                                  !.error = FALSE]
    /\ UNCHANGED <<dataVars, dec, mtl, attn, runVars>>

NextModel ==
    \/ BuildOptimizer
    \/ \E mode \in BOOLEAN : ModelTrain(mode)
    \/ ModelEval
    \/ \E B \in 1..MaxBatch : ModelForward(B)
    \/ \E B \in 1..MaxBatch : ValidationGeneration(B)

SpecModel == InitModel /\ [][NextModel]_vars

-----------------------------------------------------------------------------
(* Checkpoint files: torch.save(state_dict, os.path.join(output_dir, name)) *)

\* Largest save_every of a configuration.
MaxSaveEvery == 2

DigitChar == <<"0", "1", "2", "3", "4", "5", "6", "7", "8", "9">>

\* The decimal digits of a natural number, most significant first.
RECURSIVE Digits(_)
Digits(e) ==
    IF e < 10 THEN <<DigitChar[e + 1]>>
    ELSE Digits(e \div 10) \o <<DigitChar[(e % 10) + 1]>>

\* f"{epoch:03d}": the digits, padded with zeros on the left to 3 places.
Format03d(e) ==
    LET d == Digits(e)
    IN  [k \in 1..Max2(0, 3 - Len(d)) |-> "0"] \o d

\* f"{model_name}-{epoch:03d}.pt"
PeriodicKey(e) == <<"model_name", "-">> \o Format03d(e) \o <<".pt">>

\* f"{model_name}_bestmodel.pt"
BestKey == <<"model_name", "_bestmodel", ".pt">>

\* torch.save: the file of this name is created or replaced. A file holds
\* the parameters as they are after the training of one epoch, and the
\* directory remembers the rank that wrote it.
Save(files, key, epoch, rank) ==
    {f \in files : f.key # key} \cup {[key |-> key, epoch |-> epoch, rank |-> rank]}

\* Mutant: the last epoch is not saved for its own sake.
SaveDue_NoLast(epoch, save_every, epochs) == epoch % save_every = 0

\* if epoch % myconfig.get('save_every') == 0 or epoch == epochs - 1
SaveDue(epoch, save_every, epochs) ==
    epoch % save_every = 0 \/ epoch = epochs - 1

-----------------------------------------------------------------------------
(* main() of train_MTL_IC_VQA.py: the paired training loop.                *)

\* Largest number of batches of a dataloader, and of epochs.
MaxBatches == 3
MaxEpochs == 3

\* myconfig 'weight_loss_ic' and 'weight_loss_vqa' (0.5 each), in tenths;
\* the combined loss is kept in tenths too.
weight_loss_ic == 5
weight_loss_vqa == 5

\* The values loss_ic.item() and loss_vqa.item() of a step can take.
LossValues == {1, 3}

\* Mutant: the loop goes on while either iterator has a batch.
NextPair_Longest(drawn_ic, drawn_vqa, n_ic, n_vqa) ==
    [drawn_ic |-> Min2(drawn_ic + 1, n_ic), drawn_vqa |-> Min2(drawn_vqa + 1, n_vqa),
     stop |-> drawn_ic >= n_ic /\ drawn_vqa >= n_vqa]

\* try: batch_ic = next(t_ic_dataloader); batch_vqa = next(t_vqa_dataloader)
\* except StopIteration: break
\* The captioning iterator is asked first; the QA iterator is asked only
\* when the captioning iterator had a batch.
NextPair(drawn_ic, drawn_vqa, n_ic, n_vqa) ==
    IF drawn_ic >= n_ic
    THEN [drawn_ic |-> drawn_ic, drawn_vqa |-> drawn_vqa, stop |-> TRUE]
    ELSE IF drawn_vqa >= n_vqa
    THEN [drawn_ic |-> drawn_ic + 1, drawn_vqa |-> drawn_vqa, stop |-> TRUE]
    ELSE [drawn_ic |-> drawn_ic + 1, drawn_vqa |-> drawn_vqa + 1, stop |-> FALSE]

\* Mutant: the losses are added without their weights.
TotalLoss_Unweighted(loss_ic, loss_vqa) == loss_ic + loss_vqa

\* loss = (weight_ic * loss_ic) + (weight_vqa * loss_vqa)
TotalLoss(loss_ic, loss_vqa) ==
    (weight_loss_ic * loss_ic) + (weight_loss_vqa * loss_vqa)

\* main() up to the epoch loop: the model of the configuration, the
\* optimizer over model.parameters(), the sums and counters at 0, and
\* dataloaders of n_ic and n_vqa batches.
InitMTL ==
    /\ IdleDataset
    /\ dec = NoDec
    /\ attn = NoAttn
    /\ IdleRuns
    /\ model = [ClipCaptionPrefix_init("transformer", MaxPrefix, MaxClip, 8)
                   EXCEPT !.optimizer = MapperParameters("transformer")]
    /\ \E n_ic \in 1..MaxBatches, n_vqa \in 1..MaxBatches, epochs \in 1..MaxEpochs,
          save_every \in 1..MaxSaveEvery :
          mtl = [NoMTL EXCEPT !.pc = "epoch_start", !.n_ic = n_ic,
                              !.n_vqa = n_vqa, !.epochs = epochs,
                              !.save_every = save_every]

\* t_ic_dataloader = iter(train_dataloader_ic);
\* t_vqa_dataloader = iter(train_dataloader_vqa); a new progress bar.
EpochStart ==
    /\ mtl.pc = "epoch_start"
    /\ mtl' = [mtl EXCEPT !.drawn_ic = 0, !.drawn_vqa = 0, !.steps = 0,
                          !.pc = "draw"]
    /\ UNCHANGED <<dataVars, dec, model, attn, runVars>>

\* The head of `while True`: model.train(); model.zero_grad(); the two
\* next() calls.
Draw ==
    /\ mtl.pc = "draw"
    /\ LET pair == NextPair(mtl.drawn_ic, mtl.drawn_vqa, mtl.n_ic, mtl.n_vqa)
       IN  mtl' = [mtl EXCEPT !.drawn_ic = pair.drawn_ic,
                              !.drawn_vqa = pair.drawn_vqa,
                              !.pc = IF pair.stop THEN "epoch_end" ELSE "forward"]
    /\ model' = [model EXCEPT !.training = ClipCaptionPrefix_train(@, TRUE),
                              !.op = "train(True)"]
    /\ UNCHANGED <<dataVars, dec, attn, runVars>>

\* train_ic, train_vqa, the two cross entropies and the combined loss.
Forward(loss_ic, loss_vqa) ==
    /\ mtl.pc = "forward"
    /\ mtl' = [mtl EXCEPT !.loss_ic = loss_ic, !.loss_vqa = loss_vqa,
                          !.loss = TotalLoss(loss_ic, loss_vqa),
                          !.forwards = @ + 1,
                          !.pc = "backward"]
    /\ UNCHANGED <<dataVars, dec, model, attn, runVars>>

\* loss.backward()
Backward ==
    /\ mtl.pc = "backward"
    /\ mtl' = [mtl EXCEPT !.backwards = @ + 1, !.pc = "optimizer"]
    /\ UNCHANGED <<dataVars, dec, model, attn, runVars>>

\* optimizer.step(); scheduler.step(); optimizer.zero_grad(); the running
\* sums; progress.update()
OptimizerStep ==
    /\ mtl.pc = "optimizer"
    /\ mtl' = [mtl EXCEPT !.updates = @ + 1, !.scheduler_steps = @ + 1,
                          !.train_loss_ic = @ + mtl.loss_ic,
                          !.train_loss_vqa = @ + mtl.loss_vqa,
                          !.steps = @ + 1,
                          !.pc = "draw"]
    /\ UNCHANGED <<dataVars, dec, model, attn, runVars>>

\* After the while loop: the averages of the epoch (both sums are divided
\* by len(train_dataloader_ic)), the validation passes, which call
\* model.eval(), the periodic snapshot, and the next turn of
\* `for epoch in range(epochs)`.
EpochEnd ==
    /\ mtl.pc = "epoch_end"
    /\ mtl' = [mtl EXCEPT
                 !.epoch_avg_train_loss_ic =
                     [sum |-> mtl.train_loss_ic, count |-> mtl.n_ic],
                 !.epoch_avg_train_loss_vqa =
                     [sum |-> mtl.train_loss_vqa, count |-> mtl.n_ic],
                 !.epoch = @ + 1,
                 !.pc = IF mtl.epoch + 1 < mtl.epochs THEN "epoch_start" ELSE "done"]
    /\ model' = [model EXCEPT !.training = ClipCaptionPrefix_eval(@),
                              !.op = "eval()"]
    /\ out_dir' = IF SaveDue(mtl.epoch, mtl.save_every, mtl.epochs)
                  THEN Save(out_dir, PeriodicKey(mtl.epoch), mtl.epoch, 0)
                  ELSE out_dir
    /\ UNCHANGED <<dataVars, dec, attn, trainer, loader, stack, gen>>

NextMTL ==
    \/ EpochStart
    \/ Draw
    \/ \E loss_ic \in LossValues, loss_vqa \in LossValues : Forward(loss_ic, loss_vqa)
    \/ Backward
    \/ OptimizerStep
    \/ EpochEnd

SpecMTL == InitMTL /\ [][NextMTL]_vars

-----------------------------------------------------------------------------
(* MultiHeadAttention: construction and the head split of forward.        *)

\* Largest dim_self, num_heads and sequence length of an attention block.
MaxDim == 6
MaxHeads == 3
MaxSeq == 2

\* MultiHeadAttention.__init__: head_dim = dim_self // num_heads and
\* self.scale = head_dim ** -0.5, which raises ZeroDivisionError for
\* head_dim = 0; nothing else looks at num_heads.
MultiHeadAttention_init(dim_self, num_heads) ==
    IF dim_self \div num_heads = 0
    THEN [NoAttn EXCEPT !.pc = "init_error", !.dim_self = dim_self,
                        !.num_heads = num_heads]
    ELSE [NoAttn EXCEPT !.pc = "constructed", !.dim_self = dim_self,
                        !.num_heads = num_heads]

\* MultiHeadAttention.forward(x, y): y = None stands for y = x. The
\* queries are reshaped to (b, n, num_heads, c // num_heads) and the keys
\* and values to (b, m, 2, num_heads, c // num_heads), which raises when
\* the elements do not fit; the output is reshaped back to (b, n, c).
MultiHeadAttention_forward(a, x, y) ==
    LET b  == x[1]
        n  == x[2]
        c  == x[3]
        m  == y[2]
        queries     == View(<<b, n, a.dim_self>>,
                            <<b, n, a.num_heads, c \div a.num_heads>>)
        keys_values == View(<<b, m, a.dim_self * 2>>,
                            <<b, m, 2, a.num_heads, c \div a.num_heads>>)
    IN  IF queries.ok /\ keys_values.ok
        THEN [a EXCEPT !.pc = "forward", !.x = x, !.y = y, !.out = <<b, n, c>>]
        ELSE [a EXCEPT !.pc = "forward_error", !.x = x, !.y = y, !.out = NoShape]

InitAttention ==
    /\ IdleDataset
    /\ dec = NoDec
    /\ mtl = NoMTL
    /\ model = NoModel
    /\ attn = NoAttn
    /\ IdleRuns

\* MultiHeadAttention(dim_self, dim_self, num_heads)
AttentionConstruct(dim_self, num_heads) ==
    /\ attn' = MultiHeadAttention_init(dim_self, num_heads)
    /\ UNCHANGED <<dataVars, dec, mtl, model, runVars>>

\* self.attn(x, y) on a constructed block: x of shape (b, n, dim_self),
\* y of shape (b, m, dim_self); m = 0 stands for y = None.
AttentionForward(b, n, m) ==
    /\ attn.pc \in {"constructed", "forward"}
    /\ LET x == <<b, n, attn.dim_self>>
           y == IF m = 0 THEN x ELSE <<b, m, attn.dim_self>>
       IN  attn' = MultiHeadAttention_forward(attn, x, y)
    /\ UNCHANGED <<dataVars, dec, mtl, model, runVars>>

NextAttention ==
    \/ \E dim_self \in 1..MaxDim, num_heads \in 1..MaxHeads :
          AttentionConstruct(dim_self, num_heads)
    \/ \E b \in 1..MaxBatch, n \in 1..MaxSeq, m \in 0..MaxSeq :
          AttentionForward(b, n, m)

SpecAttention == InitAttention /\ [][NextAttention]_vars

-----------------------------------------------------------------------------
(* train() of the single-task scripts, on one process or, under            *)
(* DistributedDataParallel, on world_size processes.                       *)

SingleVariants == {"train_IC", "trainy_IC_diffusion_singleGPU"}
DDPVariants == {"multi_gpu_visdial_ic", "multi_gpu_visdial_vqa"}

\* Largest number of examples of a training set, and of processes.
MaxExamples == 3
MaxWorld == 2

\* The values apply_validation can return on a rank.
ValLosses == {1, 3}

\* train_IC.py keeps max_val_loss, but its torch.save of the best model is
\* commented out; the other scripts save it.
SavesBest(variant) == variant # "train_IC"

\* ceil(a / b)
CeilDiv(a, b) == (a + b - 1) \div b

\* torch.randperm(N, generator seeded with seed + epoch): a permutation of
\* the examples 1..N that is fixed by g = seed + epoch.
Permutation(N, g) == [k \in 1..N |-> ((k + g) % N) + 1]

\* DistributedSampler.__iter__ (drop_last = False) on the given rank: the
\* order of the epoch, padded with its own head to a multiple of the
\* number of replicas, of which the rank takes every world_size-th entry.
DistributedSampler_iter(N, world_size, rank, shuffle, g) ==
    LET indices     == IF shuffle THEN Permutation(N, g) ELSE [k \in 1..N |-> k]
        num_samples == CeilDiv(N, world_size)
        total_size  == num_samples * world_size
        padded      == [k \in 1..total_size |-> indices[((k - 1) % N) + 1]]
    IN  [j \in 1..num_samples |-> padded[rank + ((j - 1) * world_size) + 1]]

\* The examples each rank is given in an epoch: DataLoader(shuffle=False) of
\* the single-process scripts, DistributedSampler(shuffle=True) under DDP.
\* sampler_epoch is the sampler's self.epoch, and its seed is 0.
EpochShards(variant, N, world_size, sampler_epoch) ==
    [r \in 0..(world_size - 1) |->
        IF variant \in SingleVariants THEN [k \in 1..N |-> k]
        ELSE DistributedSampler_iter(N, world_size, r, TRUE, sampler_epoch)]

\* max_val_loss = float('+inf') is the empty sequence, a finite loss v is <<v>>.
PlusInf == <<>>

\* epoch_avg_val_loss < max_val_loss
LossBelow(v, max_val_loss) == max_val_loss = PlusInf \/ v < max_val_loss[1]


\* if epoch_avg_val_loss < max_val_loss: max_val_loss = epoch_avg_val_loss
TrackBest(v, max_val_loss) ==
    IF LossBelow(v, max_val_loss) THEN <<v>> ELSE max_val_loss

\* train() up to the epoch loop, on every rank: the dataloader over the
\* rank's share of the N examples, the scheduler for
\* epochs * len(train_dataloader) steps, max_val_loss = +inf.
TrainerAtStart(variant, world_size, epochs, save_every, N, batch_size) ==
    LET samples == IF variant \in SingleVariants THEN N
                   ELSE CeilDiv(N, world_size)
        n       == CeilDiv(samples, batch_size)
    IN  [NoTrainer EXCEPT
            !.pc = "epoch_start", !.variant = variant,
            !.world_size = world_size, !.epochs = epochs,
            !.save_every = save_every, !.N = N, !.n = n,
            !.num_training_steps = epochs * n,
            !.rank = [r \in 0..(world_size - 1) |->
                         [ended |-> FALSE, max_val_loss |-> PlusInf,
                          avg_val_loss |-> <<>>]]]

\* Everything but the training process is idle and the output directory
\* is empty.
OnlyTrainer ==
    /\ IdleDataset
    /\ dec = NoDec
    /\ mtl = NoMTL
    /\ model = NoModel
    /\ attn = NoAttn
    /\ out_dir = NoFiles
    /\ loader = NoLoader
    /\ stack = NoStack
    /\ gen = NoGen

\* A single-process script, for every configuration of epochs, save_every
\* and batch_size.
InitTrainer ==
    /\ OnlyTrainer
    /\ \E variant \in SingleVariants, epochs \in 1..MaxEpochs,
          save_every \in 1..MaxSaveEvery, N \in 1..MaxExamples,
          batch_size \in 1..MaxBatch :
          trainer = TrainerAtStart(variant, 1, epochs, save_every, N, batch_size)

\* A multi-GPU script on world_size processes, with the 'save_every': 1 and
\* 'batch_size': 1 of its configuration.
InitDDP ==
    /\ OnlyTrainer
    /\ \E variant \in DDPVariants, world_size \in 1..MaxWorld,
          epochs \in 1..MaxEpochs, N \in 1..MaxExamples :
          trainer = TrainerAtStart(variant, world_size, epochs, 1, N, 1)

\* for epoch in range(epochs): the iterator over the dataloader asks the
\* sampler for the order of the epoch. No script calls sampler.set_epoch,
\* so the sampler's epoch stays what it is.
TrainerEpochStart ==
    /\ trainer.pc = "epoch_start"
    /\ trainer' = [trainer EXCEPT
           !.shards = EpochShards(trainer.variant, trainer.N, trainer.world_size,
                                  trainer.sampler_epoch),
           !.idx = 0,
           !.pc = "batches"]
    /\ UNCHANGED <<dataVars, dec, mtl, model, attn, out_dir, loader, stack, gen>>

\* One batch on every rank: forward, loss.backward() (where DDP brings the
\* ranks together), optimizer.step(), scheduler.step().
TrainBatch ==
    /\ trainer.pc = "batches"
    /\ trainer.idx < trainer.n
    /\ trainer' = [trainer EXCEPT
           !.idx = @ + 1,
           !.scheduler_steps = @ + 1,
           !.pc = IF trainer.idx + 1 = trainer.n THEN "epoch_end" ELSE "batches"]
    /\ UNCHANGED <<dataVars, dec, mtl, model, attn, out_dir, loader, stack, gen>>

\* The end of an epoch on rank r: the validation loss of the rank, the
\* best-model bookkeeping and snapshot, the periodic snapshot. The rank
\* that ends last lets all ranks go on to the next epoch.
RankEpochEnd(r, epoch_avg_val_loss) ==
    /\ trainer.pc = "epoch_end"
    /\ r \in DOMAIN trainer.rank
    /\ ~trainer.rank[r].ended
    /\ LET me       == trainer.rank[r]
           better   == LossBelow(epoch_avg_val_loss, me.max_val_loss)
           saveBest == better /\ SavesBest(trainer.variant)
           saveDue  == SaveDue(trainer.epoch, trainer.save_every, trainer.epochs)
           files1   == IF saveBest
                       THEN Save(out_dir, BestKey, trainer.epoch, r) ELSE out_dir
           files2   == IF saveDue
                       THEN Save(files1, PeriodicKey(trainer.epoch), trainer.epoch, r)
                       ELSE files1
           written  == (IF saveBest THEN {BestKey} ELSE {})
                           \cup (IF saveDue THEN {PeriodicKey(trainer.epoch)} ELSE {})
           last     == \A o \in DOMAIN trainer.rank : o # r => trainer.rank[o].ended
           mine     == [me EXCEPT
                           !.max_val_loss = TrackBest(epoch_avg_val_loss, @),
                           !.avg_val_loss = Append(@, epoch_avg_val_loss),
                           !.ended = TRUE]
       IN  /\ out_dir' = files2
           /\ trainer' = [trainer EXCEPT
                  !.writes = @ \cup {[key |-> k, epoch |-> trainer.epoch, rank |-> r] :
                                        k \in written},
                  !.rank = IF last
                           THEN [o \in DOMAIN trainer.rank |->
                                    [(IF o = r THEN mine ELSE trainer.rank[o])
                                        EXCEPT !.ended = FALSE]]
                           ELSE [trainer.rank EXCEPT ![r] = mine],
                  !.epoch = IF last THEN @ + 1 ELSE @,
                  !.pc = IF ~last THEN "epoch_end"
                         ELSE IF trainer.epoch + 1 < trainer.epochs
                         THEN "epoch_start" ELSE "done"]
    /\ UNCHANGED <<dataVars, dec, mtl, model, attn, loader, stack, gen>>

NextTrainer ==
    \/ TrainerEpochStart
    \/ TrainBatch
    \/ \E r \in 0..(MaxWorld - 1), v \in ValLosses : RankEpochEnd(r, v)

SpecDDP == InitDDP /\ [][NextTrainer]_vars

-----------------------------------------------------------------------------
(* load_model                                                             *)

\* epoch_or_latest: an epoch number, formatted as f"-{epoch:03d}", or the
\* default '_latest'.
LoadSuffixes ==
    {<<"_latest">>} \cup {<<"-">> \o Format03d(e) : e \in 0..MaxEpochs}

\* model_path = os.path.join(args.out_dir, f"{args.prefix}{epoch_or_latest}.pt")
ModelPath(suffix) == <<"model_name">> \o suffix \o <<".pt">>

\* Mutant: torch.load is called without looking for the file.
load_model_Unchecked(files, suffix) ==
    LET model_path == ModelPath(suffix)
        isfile     == \E f \in files : f.key = model_path
    IN  [pc |-> "returned", path |-> model_path,
         message |-> IF isfile THEN "loading model from" ELSE "none",
         weights |-> IF isfile
                     THEN <<(CHOOSE f \in files : f.key = model_path).epoch>>
                     ELSE <<>>,
         raised |-> ~isfile]

\* load_model: a new model; if os.path.isfile(model_path) its state dict is
\* loaded from the file, else "... is not exist" is printed. The weights of
\* the result are <<e>>, those stored after epoch e, or <<>>, those of the
\* construction.
load_model(files, suffix) ==
    LET model_path == ModelPath(suffix)
        isfile     == \E f \in files : f.key = model_path
    IN  [pc |-> "returned", path |-> model_path,
         message |-> IF isfile THEN "loading model from" ELSE "is not exist",
         weights |-> IF isfile
                     THEN <<(CHOOSE f \in files : f.key = model_path).epoch>>
                     ELSE <<>>,
         raised |-> FALSE]

\* A call of load_model on the output directory that a training run has
\* left.
LoadModel(suffix) ==
    /\ trainer.pc \in {"off", "done"}
    /\ mtl.pc \in {"off", "done"}
    /\ loader' = load_model(out_dir, suffix)
    /\ UNCHANGED <<dataVars, dec, mtl, model, attn, trainer, out_dir, stack, gen>>

-----------------------------------------------------------------------------
(* The training runs and what they leave in the output directory.          *)

InitRuns == InitTrainer \/ InitMTL

NextRuns ==
    \/ NextTrainer
    \/ NextMTL
    \/ \E suffix \in LoadSuffixes : LoadModel(suffix)

SpecRuns == InitRuns /\ [][NextRuns]_vars

-----------------------------------------------------------------------------
(* Transformer: forward and forward_with_attention over the same layers.   *)
(* A tensor is the term that says how it was computed.                     *)

\* Largest num_layers of a stack.
MaxLayers == 2

\* The arguments a caller can leave out.
None == <<"None">>

\* TransformerLayer.forward and TransformerLayer.forward_with_attention
\* compute the same x: x + attn(norm1(x), y, mask), then the feed-forward
\* block. The result of layer i is a term over its arguments.
TransformerLayer_forward(i, x, y, mask) == <<"layer", i, x, y, mask>>

\* Transformer.forward, the call of layer i (0-based) on x.
Transformer_forward_layer(st, i, x) ==
    IF i % 2 = 0 /\ st.enc_dec THEN TransformerLayer_forward(i, x, st.y, None)
    ELSE IF st.enc_dec THEN TransformerLayer_forward(i, x, x, st.mask)
    ELSE TransformerLayer_forward(i, x, st.y, st.mask)

\* Transformer.forward_with_attention, the call of layer i on x.
Transformer_forward_with_attention_layer(st, i, x) ==
    TransformerLayer_forward(i, x, st.y, st.mask)

\* Transformer.__init__ (enc_dec doubles num_layers), and the inputs x, y
\* and mask that both functions are called with.
InitStack ==
    /\ IdleDataset
    /\ dec = NoDec
    /\ mtl = NoMTL
    /\ model = NoModel
    /\ attn = NoAttn
    /\ trainer = NoTrainer
    /\ out_dir = NoFiles
    /\ loader = NoLoader
    /\ gen = NoGen
    /\ \E enc_dec \in BOOLEAN, num_layers \in 1..MaxLayers,
          y \in {None, <<"y">>}, mask \in {None, <<"mask">>} :
          stack = [NoStack EXCEPT
                      !.pc = "built", !.enc_dec = enc_dec,
                      !.layers = IF enc_dec THEN num_layers * 2 ELSE num_layers,
                      !.y = y, !.mask = mask,
                      !.x = <<"x">>, !.xa = <<"x">>]

\* One turn of the loop of Transformer.forward.
StackForwardLayer ==
    /\ stack.pc = "built"
    /\ stack.i < stack.layers
    /\ stack' = [stack EXCEPT !.x = Transformer_forward_layer(stack, stack.i, @),
                              !.i = @ + 1]
    /\ UNCHANGED <<dataVars, dec, mtl, model, attn, trainer, out_dir, loader, gen>>

\* One turn of the loop of Transformer.forward_with_attention.
StackForwardWithAttentionLayer ==
    /\ stack.pc = "built"
    /\ stack.j < stack.layers
    /\ stack' = [stack EXCEPT
                    !.xa = Transformer_forward_with_attention_layer(stack, stack.j, @),
                    !.attentions = Append(@, stack.j),
                    !.j = @ + 1]
    /\ UNCHANGED <<dataVars, dec, mtl, model, attn, trainer, out_dir, loader, gen>>

NextStack == StackForwardLayer \/ StackForwardWithAttentionLayer

SpecStack == InitStack /\ [][NextStack]_vars

-----------------------------------------------------------------------------
(* validation_generation: the validation set is decoded batch by batch.    *)

GenerationScripts == {"train_IC", "multi_gpu_visdial_vqa"}

\* Largest validation set.
MaxValSet == 9

\* batch_size = 4 of validation_generation in multi_gpu_visdial_vqa.py
GenerationBatchSize == 4

\* The rows of the next batch of a DataLoader with drop_last = False.
BatchRows(N, batch_size, pos) == Min2(batch_size, N - pos)

\* The texts one batch gives. train_IC.py: generate_topk takes
\* batch_size = embed.shape[0] and returns a text per row.
\* multi_gpu_visdial_vqa.py: masky = torch.cat((torch.ones((batch_size, 10)),
\* temp_question_mask), dim=1) raises when the batch has fewer rows than
\* batch_size; else generate_per_batch returns a text per row.
DecodeBatch(script, batch_size, pos, rows) ==
    IF script = "multi_gpu_visdial_vqa" /\ rows # batch_size
    THEN [error |-> "RuntimeError", texts |-> <<>>]
    ELSE [error |-> "none", texts |-> [k \in 1..rows |-> pos + k]]

\* validation_generation is called on a validation set of N examples.
InitGen ==
    /\ IdleDataset
    /\ dec = NoDec
    /\ mtl = NoMTL
    /\ model = NoModel
    /\ attn = NoAttn
    /\ trainer = NoTrainer
    /\ out_dir = NoFiles
    /\ loader = NoLoader
    /\ stack = NoStack
    /\ \E script \in GenerationScripts, N \in 1..MaxValSet, batch_size \in 1..MaxBatch :
          gen = [NoGen EXCEPT
                    !.pc = "batches", !.script = script, !.N = N,
                    !.batch_size = IF script = "train_IC" THEN batch_size
                                   ELSE GenerationBatchSize]

\* One turn of the loop over val_dataloader: the batch is decoded and
\* the texts are appended (a text is the number of its example).
GenerateBatch ==
    /\ gen.pc = "batches"
    /\ gen.pos < gen.N
    /\ LET rows == BatchRows(gen.N, gen.batch_size, gen.pos)
           out  == DecodeBatch(gen.script, gen.batch_size, gen.pos, rows)
       IN  gen' = IF out.error # "none"
                  THEN [gen EXCEPT !.error = out.error, !.pc = "raised"]
                  ELSE [gen EXCEPT !.texts = @ \o out.texts, !.pos = @ + rows]
    /\ UNCHANGED <<dataVars, dec, mtl, model, attn, trainer, out_dir, loader, stack>>

\* assert len(generated_captions) == len(gt_captions)
GenerationAssert ==
    /\ gen.pc = "batches"
    /\ gen.pos >= gen.N
    /\ gen' = IF Len(gen.texts) = gen.N
              THEN [gen EXCEPT !.pc = "asserted"]
              ELSE [gen EXCEPT !.pc = "raised", !.error = "AssertionError"]
    /\ UNCHANGED <<dataVars, dec, mtl, model, attn, trainer, out_dir, loader, stack>>

NextGen == GenerateBatch \/ GenerationAssert

SpecGen == InitGen /\ [][NextGen]_vars

-----------------------------------------------------------------------------
(* Vocabulary of the claims.                                               *)

Returned == ret.item # 0

\* The token ids the tokenizer produced for example i at build time.
OrigTokens(i) ==
    IF kind = "IC" THEN Encode(captions[i])
    ELSE EncodeJoined(questions[i], answers[i]) \o <<eos_token_id>>

\* Number of positions of the padded sequence that hold real content.
RealCount(i) == Min2(Len(OrigTokens(i)), max_seq_len)

q_len(i) == Len(Encode(questions[i]))
a_len(i) == Len(Encode(answers[i])) + 1
rest_len(i) == max_seq_len - q_len(i) - a_len(i)

\* mask[prefix_length:], the text part of a mask
TextPart(m) == [j \in 1..(Len(m) - prefix_length) |-> m[prefix_length + j]]

QALoops == {"train_vqa", "apply_validation_vqa", "multi_gpu_visdial_vqa.train"}
ICLoops == {"train_IC.train", "apply_validation", "train_ic"}

-----------------------------------------------------------------------------
\* C1: on every access, of a captioning or a QA example, both returned
\* masks have length prefix_length + max_seq_len, and max_seq_len still is
\* the value computed from the corpus when the dataset was built.
C1_MaskLengths ==
    /\ max_seq_len = ComputeMaxSeqLen([i \in Items |-> OrigTokens(i)], copies)
    /\ Returned =>
          /\ Len(ret.mask) = prefix_length + max_seq_len
          /\ Len(ret.mask4gpt) = prefix_length + max_seq_len

\* A QA example with room left after the answer, accessed a second time.
C1_Witness ==
    /\ kind = "QA" /\ Returned /\ ~ret.first
    /\ rest_len(ret.item) > 0

\* C2: QA, rest_len >= 0: after the prefix the loss mask is q_len zeros,
\* a_len ones, rest_len zeros; its sum is a_len.
C2_LossMaskBlock ==
    (kind = "QA" /\ Returned /\ rest_len(ret.item) >= 0) =>
        /\ Len(TextPart(ret.mask)) = max_seq_len
        /\ \A j \in 1..max_seq_len :
              TextPart(ret.mask)[j] =
                  IF q_len(ret.item) < j /\ j <= q_len(ret.item) + a_len(ret.item)
                  THEN 1 ELSE 0
        /\ SumSeq(TextPart(ret.mask)) = a_len(ret.item)

\* A QA example with padding after the answer block, the answer block
\* holding the answer token and the end marker.
C2_Witness ==
    /\ kind = "QA" /\ Returned
    /\ rest_len(ret.item) > 0
    /\ SumSeq(TextPart(ret.mask)) >= 2

\* C3: QA, rest_len >= 0: the attention mask is 1 over prefix, question
\* and answer and 0 over the rest, differs from the loss mask exactly at
\* the question positions, and is the mask the QA loops give the model.
C3_AttentionMask ==
    (kind = "QA" /\ Returned /\ rest_len(ret.item) >= 0) =>
        /\ \A j \in 1..(prefix_length + max_seq_len) :
              ret.mask4gpt[j] =
                  IF j <= prefix_length + q_len(ret.item) + a_len(ret.item)
                  THEN 1 ELSE 0
        /\ {j \in 1..(prefix_length + max_seq_len) : ret.mask4gpt[j] # ret.mask[j]}
              = (prefix_length + 1)..(prefix_length + q_len(ret.item))
        /\ step.loop \in QALoops =>
              /\ step.attention_mask = ret.mask4gpt
              /\ step.attention_mask # ret.mask

\* A QA training step on an example with room for question and answer.
C3_Witness ==
    /\ kind = "QA" /\ Returned /\ rest_len(ret.item) >= 0
    /\ step.loop = "train_vqa" /\ ~step.error

\* C4: QA, rest_len >= 0: the text part of the attention mask is 1 exactly
\* at the real-content positions of the padded sequence, i.e. the stored
\* sequence has q_len + a_len real tokens.
C4_AttentionMarksRealTokens ==
    (kind = "QA" /\ Returned /\ rest_len(ret.item) >= 0) =>
        /\ Len(OrigTokens(ret.item)) = q_len(ret.item) + a_len(ret.item)
        /\ \A j \in 1..max_seq_len :
              ret.mask4gpt[prefix_length + j] =
                  IF j <= RealCount(ret.item) THEN 1 ELSE 0

\* C5: captioning, on every access: the mask is prefix_length ones, then 1
\* at the real-token positions and 0 at the padding positions.
C5_CaptionMask ==
    (kind = "IC" /\ Returned) =>
        ret.mask = Ones(prefix_length)
                   \o [j \in 1..max_seq_len |->
                          IF j <= RealCount(ret.item) THEN 1 ELSE 0]

\* C6: QA, rest_len < 0: both masks are zero over the whole text region,
\* pad_tokens raises nothing and the example is still in the dataset.
C6_OverlongZeroMasks ==
    (kind = "QA" /\ Returned /\ rest_len(ret.item) < 0) =>
        /\ ret.mask = Ones(prefix_length) \o Zeros(max_seq_len)
        /\ ret.mask4gpt = Ones(prefix_length) \o Zeros(max_seq_len)
        /\ ~ret.error
        /\ ret.item \in DOMAIN captions_tokens
        /\ Len(captions_tokens[ret.item]) = max_seq_len

\* An overlong QA example whose question and answer blocks would reach
\* into the text region.
C6_Witness ==
    /\ kind = "QA" /\ Returned /\ rest_len(ret.item) < 0
    /\ q_len(ret.item) < max_seq_len

\* C7: on every access the returned tokens have length max_seq_len, are the
\* first min(n, max_seq_len) original ids followed by zeros, and hold no -1.
C7_PaddedTokens ==
    Returned =>
        /\ Len(ret.tokens) = max_seq_len
        /\ \A j \in 1..max_seq_len :
              ret.tokens[j] =
                  IF j <= RealCount(ret.item) THEN OrigTokens(ret.item)[j] ELSE 0
        /\ \A j \in 1..Len(ret.tokens) : ret.tokens[j] # -1

\* A padded example on its first access.
C7_Witness ==
    /\ Returned /\ ret.first
    /\ Len(OrigTokens(ret.item)) < max_seq_len

-----------------------------------------------------------------------------
\* A sequence is STOPPED when its flag is set, RUNNING otherwise.
Stopped(b) == dec.is_stopped[b]

\* The stop token or the end-of-sequence token has been chosen for b.
StopChosen(b) ==
    \E k \in 1..Len(dec.tokens[b]) :
        dec.tokens[b][k] \in {stop_token_index, eos_token_id}

\* C10: every sequence starts RUNNING; after any step a sequence is STOPPED
\* iff the stop or the end-of-sequence token was chosen for it at that step
\* or an earlier one; a STOPPED sequence never becomes RUNNING again.
C10_StopStateMachine ==
    /\ [](dec.pc # "off" =>
            /\ dec.i = 0 => \A b \in 1..dec.batch_size : ~Stopped(b)
            /\ \A b \in 1..dec.batch_size : Stopped(b) <=> StopChosen(b))
    /\ [][dec.pc # "off" =>
            \A b \in 1..dec.batch_size : Stopped(b) => dec'.is_stopped[b]]_vars

\* One sequence stopped at an earlier step while the other went on running
\* and was given further tokens.
C10_Witness ==
    /\ dec.pc = "loop" /\ dec.batch_size = 2 /\ dec.i >= 2
    /\ Stopped(1) /\ ~Stopped(2)
    /\ dec.tokens[1][1] = eos_token_id
    /\ dec.tokens[1][2] = 1

AllStopped == \A b \in 1..dec.batch_size : Stopped(b)

\* C11: once the stop condition of a sequence has fired, its recorded
\* length has the same value after every later step and at return.
C11_LengthFrozen ==
    [][dec.pc # "off" =>
          \A b \in 1..dec.batch_size :
              Stopped(b) => dec'.seq_lengths[b] = dec.seq_lengths[b]]_vars

\* The first sequence stopped at step 1, the second one kept the loop
\* running to its end, and the decoder has returned.
C11_Witness ==
    /\ dec.pc = "done" /\ dec.batch_size = 2
    /\ dec.tokens[1][1] = stop_token_index
    /\ Len(dec.tokens[1]) = EntryLength
    /\ ~StopChosen(2)
    /\ dec.seq_lengths[1] = 2

\* C12: at return every recorded length is <= entry_length, and it equals
\* entry_length for a sequence that never chose a stop token.
C12_LengthAtMostEntryLength ==
    dec.pc = "done" =>
        \A b \in 1..dec.batch_size :
            /\ dec.seq_lengths[b] <= EntryLength
            /\ ~StopChosen(b) => dec.seq_lengths[b] = EntryLength

\* C13: decoding terminates; it makes at most entry_length language model
\* calls, leaves the loop right after the first step that ends with every
\* sequence STOPPED, and never starts a step with all sequences STOPPED.
C13_DecodingTerminates ==
    /\ [](dec.pc # "off" =>
            /\ dec.calls <= EntryLength
            /\ dec.calls = dec.i
            /\ dec.pc = "loop" => ~AllStopped /\ dec.i < EntryLength)
    /\ [][(dec.pc = "loop" /\ dec'.calls = dec.calls + 1) =>
            /\ ~AllStopped
            /\ (\A b \in 1..dec.batch_size : dec'.is_stopped[b]) => dec'.pc = "decode"]_vars
    /\ <>(dec.pc = "done")

\* All sequences stopped at the second of three possible steps and the
\* decoder returned after two calls.
C13_Witness ==
    /\ dec.pc = "done" /\ dec.batch_size = 2
    /\ dec.calls = 2 /\ dec.calls < EntryLength
    /\ AllStopped
    /\ dec.tokens[1][1] = eos_token_id
    /\ dec.tokens[2][1] = 1

\* C18: after any sequence of train(True), train(False) and eval() calls
\* the language model is in evaluation mode, and the optimizer, built from
\* parameters(), holds the parameters of the prefix mapper and none of the
\* language model.
C18_LanguageModelFrozen ==
    model.pc = "constructed" =>
        /\ ~model.training["gpt"]
        /\ ClipCaptionPrefix_parameters(model) \cap GptParameters = {}
        /\ model.optimizer \cap GptParameters = {}
        /\ model.optimizer # {} => model.optimizer = MapperParameters(model.mapping_type)

\* train(True) was the last call: the model and the mapper are in training
\* mode, and the optimizer has been built.
C18_Witness ==
    /\ model.op = "train(True)"
    /\ model.training["self"] /\ model.training["clip_project"]
    /\ model.optimizer # {}

\* C19: the embeddings the mapper supplies have the shape
\* (batch, prefix_length, embedding_dim), in the forward pass and where the
\* decoder starts from the mapper output, for both mapper variants and
\* every clip_length.
C19_MapperOutputShape ==
    model.op \in {"forward", "generate"} =>
        /\ ~model.error
        /\ model.embed = <<model.batch, model.prefix_length, model.gpt_embedding_size>>

\* The averages of an epoch have just been computed.
EpochClosed == mtl.pc \in {"epoch_start", "done"} /\ mtl.epoch >= 1

\* C14: an epoch over n_ic captioning batches and n_vqa QA batches runs
\* exactly min(n_ic, n_vqa) paired training steps.
C14_PairedSteps ==
    /\ mtl.pc # "off" => mtl.steps <= Min2(mtl.n_ic, mtl.n_vqa)
    /\ mtl.pc = "epoch_end" => mtl.steps = Min2(mtl.n_ic, mtl.n_vqa)

\* The second epoch over 3 captioning and 2 QA batches stopped after 2 steps.
C14_Witness ==
    /\ mtl.pc = "epoch_end" /\ mtl.epoch = 1
    /\ mtl.n_ic = 3 /\ mtl.n_vqa = 2
    /\ mtl.steps = 2

\* C15: between two paired steps and when the epoch stops, as many batches
\* have been drawn from the captioning iterator as from the QA iterator.
C15_DrawnInLockstep ==
    mtl.pc \in {"draw", "epoch_end"} => mtl.drawn_ic = mtl.drawn_vqa

\* C16: the loss sums of the two tasks are kept apart, and the average of
\* each task is its own sum divided by its own number of batches (the
\* batches of its dataloader, or the batches it was trained on).
C16_OwnBatchCount ==
    EpochClosed =>
        /\ mtl.epoch_avg_train_loss_ic.sum = mtl.train_loss_ic
        /\ mtl.epoch_avg_train_loss_vqa.sum = mtl.train_loss_vqa
        /\ mtl.epoch_avg_train_loss_ic.count \in {mtl.n_ic, mtl.steps}
        /\ mtl.epoch_avg_train_loss_vqa.count \in {mtl.n_vqa, mtl.steps}

\* C17: a paired step combines the losses as
\* weight_ic * loss_ic + weight_vqa * loss_vqa, runs one backward pass and
\* one optimizer update, and no step starts its forward passes before the
\* update of the step before is applied.
C17_OneUpdatePerStep ==
    /\ [](mtl.pc # "off" =>
            /\ mtl.pc \in {"backward", "optimizer"} =>
                   mtl.loss = (weight_loss_ic * mtl.loss_ic) + (weight_loss_vqa * mtl.loss_vqa)
            /\ mtl.backwards = mtl.forwards - (IF mtl.pc = "backward" THEN 1 ELSE 0)
            /\ mtl.updates = mtl.forwards - (IF mtl.pc \in {"backward", "optimizer"} THEN 1 ELSE 0)
            /\ mtl.scheduler_steps = mtl.updates)
    /\ [][mtl'.forwards # mtl.forwards =>
            /\ mtl'.forwards = mtl.forwards + 1
            /\ mtl.updates = mtl.forwards /\ mtl.backwards = mtl.forwards]_vars

\* Two paired steps are complete; the second one combined the losses 1 and 3.
C17_Witness ==
    /\ mtl.pc = "draw" /\ mtl.updates = 2 /\ mtl.backwards = 2
    /\ mtl.loss_ic = 1 /\ mtl.loss_vqa = 3 /\ mtl.loss = 20

\* C20: an attention block whose channels are not a multiple of num_heads
\* is rejected at construction: no such block exists as a constructed
\* object, and none is used in a forward pass.
C20_HeadsDivideChannels ==
    attn.pc \in {"constructed", "forward", "forward_error"} =>
        attn.dim_self % attn.num_heads = 0

\* The step at which the stop condition of sequence b fired.
FirstStop(b) ==
    CHOOSE k \in 1..Len(dec.tokens[b]) :
        /\ dec.tokens[b][k] \in {stop_token_index, eos_token_id}
        /\ \A j \in 1..(k - 1) : dec.tokens[b][j] \notin {stop_token_index, eos_token_id}

\* C27: of a sequence whose stop condition fired at step t, only tokens
\* chosen at steps <= t are decoded into its text (skip_special_tokens drops
\* the end-of-sequence token wherever it stands).
C27_NothingAfterStop ==
    dec.pc = "done" =>
        \A b \in 1..dec.batch_size :
            StopChosen(b) =>
                \A k \in 1..Len(dec.output[b]) :
                    k > FirstStop(b) => dec.output[b][k] = eos_token_id

\* C28: the running loss sums of the two tasks are zero when an epoch
\* starts its first paired step, so the averages of an epoch are made of
\* the losses of that epoch only.
C28_SumsStartAtZero ==
    (mtl.pc = "draw" /\ mtl.steps = 0) =>
        mtl.train_loss_ic = 0 /\ mtl.train_loss_vqa = 0

HasFile(key) == \E f \in out_dir : f.key = key

FileOf(key) == CHOOSE f \in out_dir : f.key = key

\* The periodic snapshots a run of `epochs` epochs with this save_every has
\* left when `completed` epochs are over: epoch e has one iff it is due,
\* and the file holds the parameters of epoch e.
PeriodicFilesAsDue(epochs, save_every, completed) ==
    \A e \in 0..(epochs - 1) :
        /\ e < completed =>
              /\ HasFile(PeriodicKey(e)) <=> (e % save_every = 0 \/ e = epochs - 1)
              /\ HasFile(PeriodicKey(e)) => FileOf(PeriodicKey(e)).epoch = e
        /\ e > completed => ~HasFile(PeriodicKey(e))
        /\ \A d \in 0..(epochs - 1) : d # e => PeriodicKey(d) # PeriodicKey(e)

\* C21: with save_every >= 1, the snapshot {model_name}-{e:03d} of epoch e
\* is written if and only if e % save_every == 0 or e == epochs - 1; the
\* last epoch is always saved and distinct epochs have distinct keys.
C21_PeriodicSnapshots ==
    /\ trainer.pc # "off" =>
           /\ PeriodicFilesAsDue(trainer.epochs, trainer.save_every, trainer.epoch)
           /\ trainer.pc = "done" => HasFile(PeriodicKey(trainer.epochs - 1))
    /\ mtl.pc # "off" =>
           /\ PeriodicFilesAsDue(mtl.epochs, mtl.save_every, mtl.epoch)
           /\ mtl.pc = "done" => HasFile(PeriodicKey(mtl.epochs - 1))

\* A run of 3 epochs with save_every = 2 is over: epochs 0 and 2 have a
\* snapshot, epoch 1 has none.
C21_Witness ==
    /\ trainer.pc = "done" /\ trainer.epochs = 3 /\ trainer.save_every = 2
    /\ HasFile(PeriodicKey(0)) /\ ~HasFile(PeriodicKey(1)) /\ HasFile(PeriodicKey(2))

\* The smallest value of a non-empty sequence of losses.
MinLoss(losses) ==
    CHOOSE v \in {losses[k] : k \in 1..Len(losses)} :
        \A k \in 1..Len(losses) : v <= losses[k]

\* The first epoch (0-based) with the smallest loss.
BestEpoch(losses) ==
    (CHOOSE k \in 1..Len(losses) :
        /\ losses[k] = MinLoss(losses)
        /\ \A j \in 1..(k - 1) : losses[j] # MinLoss(losses)) - 1

\* C22: in a training process that tracks the best validation loss, after
\* every epoch the snapshot {model_name}_bestmodel exists and holds the
\* parameters of the earliest epoch with the lowest validation loss so
\* far, and the tracked best loss is that lowest loss.
C22_BestSnapshot ==
    (trainer.pc \in {"epoch_start", "done"} /\ trainer.epoch >= 1
        /\ trainer.world_size = 1) =>
        LET losses == trainer.rank[0].avg_val_loss
        IN  /\ trainer.rank[0].max_val_loss = <<MinLoss(losses)>>
            /\ HasFile(BestKey)
            /\ FileOf(BestKey).epoch = BestEpoch(losses)

C25_ShardsPartitionAndReshuffle ==
    /\ []((trainer.variant \in DDPVariants /\ trainer.pc \in {"batches", "epoch_end"}) =>
            \A x \in 1..trainer.N :
                Cardinality({<<r, j>> \in (DOMAIN trainer.shards) \X (1..trainer.N) :
                                /\ j <= Len(trainer.shards[r])
                                /\ trainer.shards[r][j] = x}) = 1)
    /\ [][(trainer.variant \in DDPVariants /\ trainer.pc = "epoch_start"
             /\ trainer.epoch >= 1 /\ trainer.N >= 2 /\ trainer'.pc = "batches") =>
            trainer'.shards # trainer.shards]_vars

\* C29: the scheduler is never stepped more often than the
\* num_training_steps it was created with: epochs * len(QA dataloader) in
\* the multi-task run, epochs * len(train_dataloader) in a single-task run.
C29_SchedulerSteps ==
    /\ mtl.pc # "off" =>
           /\ mtl.scheduler_steps <= mtl.epochs * mtl.n_vqa
           /\ mtl.pc = "done" =>
                  mtl.scheduler_steps = mtl.epochs * Min2(mtl.n_ic, mtl.n_vqa)
    /\ trainer.pc # "off" =>
           /\ trainer.num_training_steps = trainer.epochs * trainer.n
           /\ trainer.scheduler_steps <= trainer.num_training_steps
           /\ trainer.pc = "done" => trainer.scheduler_steps = trainer.num_training_steps

\* A multi-task run of 2 epochs with more captioning than QA batches is
\* over and has used every step of the schedule.
C29_Witness ==
    /\ mtl.pc = "done" /\ mtl.epochs = 2
    /\ mtl.n_ic = 3 /\ mtl.n_vqa = 2
    /\ mtl.scheduler_steps = 4

\* C30: with more than one process, a checkpoint file is written by one
\* process only in an epoch.
C30_OneWriterPerFile ==
    trainer.world_size > 1 =>
        \A w1 \in trainer.writes, w2 \in trainer.writes :
            (w1.key = w2.key /\ w1.epoch = w2.epoch) => w1.rank = w2.rank

\* C24: validation generation over N >= 1 examples, N a multiple of the
\* batch size or not, decodes every batch without error and reaches the
\* assertion with N texts, one per example in dataset order.
C24_GenerationCountsMatch ==
    /\ gen.error = "none"
    /\ gen.pc \notin {"off", "raised"}
    /\ gen.pc = "asserted" => gen.texts = [k \in 1..gen.N |-> k]

\* C26: forward_with_attention gives every layer the key/value source and
\* the mask that forward gives it, so that both return the same output,
\* and forward_with_attention returns the attention of every layer too.
C26_SameOutput ==
    (stack.pc = "built" /\ stack.i = stack.layers /\ stack.j = stack.layers) =>
        /\ stack.xa = stack.x
        /\ Len(stack.attentions) = stack.layers
====
